---- MODULE Spec2Model ----
(***************************************************************************)
(* Model of frontend/app/src/composables/status.ts: useStatusUpdater, the   *)
(* six operations of the handle it returns, and the status store they      *)
(* delegate to.                                                            *)
(***************************************************************************)
EXTENDS Naturals, Sequences, FiniteSets, TLC

\* ------------------------------------------------------------------ bounds
NumSections == 2
NumSubsections == 1
MaxEntries == 2

\* ------------------------------------------------------------ data model
SectionNames == <<"balances", "history", "defi", "nfts">>
SubsectionNames == <<"eth", "optimism", "btc">>

\* Section identifiers (type Section of '@/types/status').
Sections == {SectionNames[i] : i \in 1..NumSections}

\* Subsection identifiers (plain strings).
Subsections == {SubsectionNames[i] : i \in 1..NumSubsections}

\* The value a missing property or a missing argument reads as.
Undefined == "undefined"

\* enum Status of '@/types/status'.
NONE == "NONE"
LOADING == "LOADING"
LOADED == "LOADED"
Status == {NONE, LOADING, LOADED}

\* interface Opts { section?: Section; subsection?: string }
Opts == [section : Sections \cup {Undefined}, subsection : Subsections \cup {Undefined}]

\* The trailing optional argument of every operation: omitted, or one Opts.
ArgLists == {<<>>} \cup {<<o>> : o \in Opts}

\* `opts: Opts = {}`: the default parameter value applies when no argument is passed.
OptsParam(args) ==
  IF Len(args) = 0 THEN [section |-> Undefined, subsection |-> Undefined] ELSE args[1]

\* `section = defaultSection` in a destructuring pattern: the default applies to undefined.
OrDefault(v, d) == IF v = Undefined THEN d ELSE v

\* ------------------------------------------------------- the status store
\* The store maps (section, subsection-or-absent) to a Status; a key that was
\* never written is not in its domain.
StatusKeys == Sections \X (Subsections \cup {Undefined})

\* store.setStatus({section, subsection, status})
setStatus(st, payload) ==
  LET key == <<payload.section, payload.subsection>>
  IN [k \in DOMAIN st \cup {key} |-> IF k = key THEN payload.status ELSE st[k]]

\* get(store.getStatus(section, subsection))
getStatus(st, section, subsection) ==
  IF <<section, subsection>> \in DOMAIN st THEN st[<<section, subsection>>] ELSE NONE

\* get(store.isLoading(section, subsection)): derived from the status of the key.
isLoading(st, section, subsection) == getStatus(st, section, subsection) = LOADING

\* ------------------------------------------------------------------ state
VARIABLES
  store,        \* the process-wide status store
  lastOp,       \* the call a view has just made on an updater (arguments, store calls,
                \* result), or idle when no view is using a result
  lastWritten,  \* history: per key, the status passed by the latest setStatus/resetStatus
  loadedSince   \* history: keys taken from NONE to a loaded status and not written since

vars == <<store, lastOp, lastWritten, loadedSince>>

\* ------------------------------------------- the handle of useStatusUpdater
\* Every operation closes over defaultSection and the store.  An operator
\* gives the value the function returns (ret), the calls it makes on the
\* store (calls) and, for the two mutators, the store it leaves (store).

StoreCall(fn, section, subsection) == [fn |-> fn, section |-> section, subsection |-> subsection]

\* Faulty variant of updateStatus: the section override of the options is ignored.
updateStatusOwnSection(defaultSection, status, args) ==
  LET opts == OptsParam(args)
      section == defaultSection
      subsection == opts.subsection
  IN [store |-> setStatus(store, [section |-> section, subsection |-> subsection, status |-> status]),
      calls |-> <<StoreCall("setStatus", section, subsection)>>]

\* Faulty variant of updateStatus: the subsection is not passed on to the store.
updateStatusNoSubsection(defaultSection, status, args) ==
  LET opts == OptsParam(args)
      section == OrDefault(opts.section, defaultSection)
  IN [store |-> setStatus(store, [section |-> section, subsection |-> Undefined, status |-> status]),
      calls |-> <<StoreCall("setStatus", section, Undefined)>>]

\* const updateStatus = (status, opts = {}) => { ... setStatus({section, subsection, status}) }
updateStatus(defaultSection, status, args) ==
  LET opts == OptsParam(args)
      section == OrDefault(opts.section, defaultSection)
      subsection == opts.subsection
  IN [store |-> setStatus(store, [section |-> section, subsection |-> subsection, status |-> status]),
      calls |-> <<StoreCall("setStatus", section, subsection)>>]

\* Faulty variant of resetStatus: the subsection is not passed on to the store.
resetStatusNoSubsection(defaultSection, args) ==
  LET opts == OptsParam(args)
      section == OrDefault(opts.section, defaultSection)
  IN [store |-> setStatus(store, [section |-> section, subsection |-> Undefined, status |-> NONE]),
      calls |-> <<StoreCall("setStatus", section, Undefined)>>]

\* const resetStatus = (opts = {}) => { ... setStatus({section, subsection, status: Status.NONE}) }
resetStatus(defaultSection, args) ==
  LET opts == OptsParam(args)
      section == OrDefault(opts.section, defaultSection)
      subsection == opts.subsection
  IN [store |-> setStatus(store, [section |-> section, subsection |-> subsection, status |-> NONE]),
      calls |-> <<StoreCall("setStatus", section, subsection)>>]

\* const loading = (opts = {}) => get(isLoading(section, subsection))
loading(defaultSection, args) ==
  LET opts == OptsParam(args)
      section == OrDefault(opts.section, defaultSection)
      subsection == opts.subsection
  IN [ret |-> isLoading(store, section, subsection),
      calls |-> <<StoreCall("isLoading", section, subsection)>>]

\* Faulty variant of isFirstLoad: the subsection is not passed on to the store.
isFirstLoadNoSubsection(defaultSection, args) ==
  LET opts == OptsParam(args)
      section == OrDefault(opts.section, defaultSection)
  IN [ret |-> getStatus(store, section, Undefined) = NONE,
      calls |-> <<StoreCall("getStatus", section, Undefined)>>]

\* Faulty variant of isFirstLoad: the section override of the options is ignored.
isFirstLoadOwnSection(defaultSection, args) ==
  LET opts == OptsParam(args)
      section == defaultSection
      subsection == opts.subsection
  IN [ret |-> getStatus(store, section, subsection) = NONE,
      calls |-> <<StoreCall("getStatus", section, subsection)>>]

\* const isFirstLoad = (opts = {}) => get(getStatus(section, subsection)) === Status.NONE
isFirstLoad(defaultSection, args) ==
  LET opts == OptsParam(args)
      section == OrDefault(opts.section, defaultSection)
      subsection == opts.subsection
  IN [ret |-> getStatus(store, section, subsection) = NONE,
      calls |-> <<StoreCall("getStatus", section, subsection)>>]

\* Faulty variant of fetchDisabled: `&&` for the inner `||`.
fetchDisabledBothNeeded(defaultSection, refresh, args) ==
  LET opts == OptsParam(args)
      first == isFirstLoad(defaultSection, <<opts>>)
      allowed == first.ret /\ refresh
      load == loading(defaultSection, <<opts>>)
  IN IF ~allowed
       THEN [ret |-> TRUE, calls |-> first.calls]
       ELSE [ret |-> load.ret, calls |-> first.calls \o load.calls]

\* Faulty variant of fetchDisabled: the load in progress is not consulted.
fetchDisabledNoLoading(defaultSection, refresh, args) ==
  LET opts == OptsParam(args)
      first == isFirstLoad(defaultSection, <<opts>>)
  IN [ret |-> ~(first.ret \/ refresh), calls |-> first.calls]

\* Faulty variant of fetchDisabled: `&&` for the outer `||`.
fetchDisabledAndLoading(defaultSection, refresh, args) ==
  LET opts == OptsParam(args)
      first == isFirstLoad(defaultSection, <<opts>>)
      allowed == first.ret \/ refresh
      load == loading(defaultSection, <<opts>>)
  IN IF allowed
       THEN [ret |-> FALSE, calls |-> first.calls]
       ELSE [ret |-> load.ret, calls |-> first.calls \o load.calls]

\* const fetchDisabled = (refresh, opts = {}) => !(isFirstLoad(opts) || refresh) || loading(opts)
\* `||` evaluates its right operand only when the left one is false.  The
\* inner calls receive the already defaulted opts.
fetchDisabled(defaultSection, refresh, args) ==
  LET opts == OptsParam(args)
      first == isFirstLoad(defaultSection, <<opts>>)
      allowed == first.ret \/ refresh
      load == loading(defaultSection, <<opts>>)
  IN IF ~allowed
       THEN [ret |-> TRUE, calls |-> first.calls]
       ELSE [ret |-> load.ret, calls |-> first.calls \o load.calls]

\* Faulty variant of getSectionStatus: the section override of the options is ignored.
getSectionStatusOwnSection(defaultSection, args) ==
  LET opts == OptsParam(args)
      section == defaultSection
      subsection == opts.subsection
  IN [ret |-> getStatus(store, section, subsection),
      calls |-> <<StoreCall("getStatus", section, subsection)>>]

\* const getSectionStatus = (opts = {}) => get(getStatus(section, subsection))
getSectionStatus(defaultSection, args) ==
  LET opts == OptsParam(args)
      section == OrDefault(opts.section, defaultSection)
      subsection == opts.subsection
  IN [ret |-> getStatus(store, section, subsection),
      calls |-> <<StoreCall("getStatus", section, subsection)>>]

\* ----------------------------------------------------- history bookkeeping
\* The key a call is addressed to: the section given in the options, or the
\* updater's own section when none is given, and the subsection given, if any.
AddressedKey(self, args) ==
  IF args = <<>>
    THEN <<self, Undefined>>
    ELSE <<IF args[1].section \in Sections THEN args[1].section ELSE self, args[1].subsection>>

Held(h, key) == IF key \in DOMAIN h THEN h[key] ELSE NONE

RecordWrite(self, args, status) ==
  LET key == AddressedKey(self, args)
  IN /\ lastWritten' = [k \in DOMAIN lastWritten \cup {key} |->
                          IF k = key THEN status ELSE lastWritten[k]]
     /\ loadedSince' = IF status = LOADED /\ Held(lastWritten, key) = NONE
                         THEN loadedSince \cup {key}
                         ELSE loadedSince \ {key}

\* ---------------------------------------------------------------- actions
Init ==
  /\ store = << >>
  /\ lastOp = [op |-> "idle"]
  /\ lastWritten = << >>
  /\ loadedSince = {}

\* handle.setStatus(status, opts?)
SetStatusCall(self, status, args) ==
  LET r == updateStatus(self, status, args)
  IN /\ lastOp.op = "idle"
     /\ Cardinality(DOMAIN r.store) <= MaxEntries
     /\ store' = r.store
     /\ lastOp' = [op |-> "setStatus", self |-> self, args |-> args, status |-> status,
                   old |-> Held(store, AddressedKey(self, args)), calls |-> r.calls]
     /\ RecordWrite(self, args, status)

\* handle.resetStatus(opts?)
ResetStatusCall(self, args) ==
  LET r == resetStatus(self, args)
  IN /\ lastOp.op = "idle"
     /\ Cardinality(DOMAIN r.store) <= MaxEntries
     /\ store' = r.store
     /\ lastOp' = [op |-> "resetStatus", self |-> self, args |-> args,
                   old |-> Held(store, AddressedKey(self, args)), calls |-> r.calls]
     /\ RecordWrite(self, args, NONE)

\* handle.loading(opts?)
LoadingCall(self, args) ==
  LET r == loading(self, args)
  IN /\ lastOp.op = "idle"
     /\ lastOp' = [op |-> "loading", self |-> self, args |-> args,
                   ret |-> r.ret, calls |-> r.calls]
     /\ UNCHANGED <<store, lastWritten, loadedSince>>

\* handle.isFirstLoad(opts?)
IsFirstLoadCall(self, args) ==
  LET r == isFirstLoad(self, args)
  IN /\ lastOp.op = "idle"
     /\ lastOp' = [op |-> "isFirstLoad", self |-> self, args |-> args,
                   ret |-> r.ret, calls |-> r.calls]
     /\ UNCHANGED <<store, lastWritten, loadedSince>>

\* handle.fetchDisabled(refresh, opts?)
FetchDisabledCall(self, refresh, args) ==
  LET r == fetchDisabled(self, refresh, args)
  IN /\ lastOp.op = "idle"
     /\ lastOp' = [op |-> "fetchDisabled", self |-> self, args |-> args, refresh |-> refresh,
                   ret |-> r.ret, calls |-> r.calls]
     /\ UNCHANGED <<store, lastWritten, loadedSince>>

\* Faulty variant of handle.getStatus: the read is followed by a write of what was read.
GetStatusCallWrites(self, args) ==
  LET r == getSectionStatus(self, args)
      key == <<r.calls[1].section, r.calls[1].subsection>>
  IN /\ lastOp.op = "idle"
     /\ Cardinality(DOMAIN store \cup {key}) <= MaxEntries
     /\ store' = setStatus(store, [section |-> key[1], subsection |-> key[2], status |-> r.ret])
     /\ lastOp' = [op |-> "getStatus", self |-> self, args |-> args,
                   ret |-> r.ret, calls |-> r.calls]
     /\ UNCHANGED <<lastWritten, loadedSince>>

\* handle.getStatus(opts?)
GetStatusCall(self, args) ==
  LET r == getSectionStatus(self, args)
  IN /\ lastOp.op = "idle"
     /\ lastOp' = [op |-> "getStatus", self |-> self, args |-> args,
                   ret |-> r.ret, calls |-> r.calls]
     /\ UNCHANGED <<store, lastWritten, loadedSince>>

\* The synchronous call has returned and the view is done with its result.
Return ==
  /\ lastOp.op # "idle"
  /\ lastOp' = [op |-> "idle"]
  /\ UNCHANGED <<store, lastWritten, loadedSince>>

\* One updater per default section.  Execution is single-threaded: a view makes
\* one call at a time, on any updater, and the call runs to completion.
Next ==
  \/ Return
  \/ \E self \in Sections, args \in ArgLists :
       \/ \E status \in Status : SetStatusCall(self, status, args)
       \/ ResetStatusCall(self, args)
       \/ LoadingCall(self, args)
       \/ IsFirstLoadCall(self, args)
       \/ \E refresh \in BOOLEAN : FetchDisabledCall(self, refresh, args)
       \/ GetStatusCall(self, args)

Spec == Init /\ [][Next]_vars

\* ------------------------------------------------------------- properties
Updaters == Sections
Queries == {"loading", "isFirstLoad", "fetchDisabled", "getStatus"}
Mutators == {"setStatus", "resetStatus"}

SectionOmitted(args) == args = <<>> \/ args[1].section = Undefined
SubsectionGiven(args) == IF args = <<>> THEN Undefined ELSE args[1].subsection
CallKeys(calls) == {<<calls[i].section, calls[i].subsection>> : i \in 1..Len(calls)}

\* C1: the value a fetchDisabled(refresh, opts) call returns, on any updater and
\* in any store state, is NOT (isFirstLoad(opts) OR refresh) OR loading(opts) on
\* the same updater and store; it is false only when (isFirstLoad(opts) or
\* refresh) and not loading(opts); with refresh false it is loading(opts) OR NOT
\* isFirstLoad(opts).
C1_FetchDisabledFormula ==
  lastOp.op = "fetchDisabled" =>
    LET first == isFirstLoad(lastOp.self, lastOp.args).ret
        load == loading(lastOp.self, lastOp.args).ret
        refresh == lastOp.refresh
        disabled == lastOp.ret
    IN /\ disabled = (~(first \/ refresh) \/ load)
       /\ ~disabled => (first \/ refresh) /\ ~load
       /\ ~refresh => (disabled = (load \/ ~first))

\* A fetchDisabled(false) call that allowed the fetch of a key never loaded,
\* while another key of the store is loading.
C1_Witness ==
  /\ lastOp.op = "fetchDisabled"
  /\ ~lastOp.refresh
  /\ ~lastOp.ret
  /\ \E k \in DOMAIN store : store[k] = LOADING

\* C2: whenever a call omits the section, every key the operation hands to the
\* store has the updater's default section and the subsection supplied with the
\* call (absent when none was supplied), and the operation does reach the store.
C2_DefaultSectionUsed ==
  (lastOp.op \in Queries \cup Mutators /\ SectionOmitted(lastOp.args)) =>
    /\ Len(lastOp.calls) >= 1
    /\ \A i \in 1..Len(lastOp.calls) :
         /\ lastOp.calls[i].section = lastOp.self
         /\ lastOp.calls[i].subsection = SubsectionGiven(lastOp.args)

\* A fetchDisabled call with a subsection and no section that consulted the
\* store twice.
C2_Witness ==
  /\ lastOp.op = "fetchDisabled"
  /\ lastOp.args # <<>>
  /\ lastOp.args[1].section = Undefined
  /\ lastOp.args[1].subsection \in Subsections
  /\ Len(lastOp.calls) = 2
  /\ CallKeys(lastOp.calls) = {<<lastOp.self, lastOp.args[1].subsection>>}

\* C3: in the state resetStatus(opts) leaves, getStatus(opts) on the same
\* updater returns Status.NONE, whatever the key held before.
C3_ResetThenGetIsNone ==
  lastOp.op = "resetStatus" => getSectionStatus(lastOp.self, lastOp.args).ret = NONE

\* A resetStatus of a subsection key that held LOADED.
C3_Witness ==
  /\ lastOp.op = "resetStatus"
  /\ lastOp.old = LOADED
  /\ lastOp.args # <<>>
  /\ lastOp.args[1].subsection \in Subsections
  /\ getSectionStatus(lastOp.self, lastOp.args).ret = NONE

\* C4: an isFirstLoad(opts) call returns true for a key no setStatus or
\* resetStatus was ever addressed to, and isFirstLoad(opts) is false in the state left by a setStatus(status, opts)
\* with status other than Status.NONE.
C4_FirstLoad ==
  /\ lastOp.op = "isFirstLoad" /\ AddressedKey(lastOp.self, lastOp.args) \notin DOMAIN lastWritten
       => lastOp.ret
  /\ lastOp.op = "setStatus" /\ lastOp.status # NONE
       => ~isFirstLoad(lastOp.self, lastOp.args).ret

\* A setStatus with a status other than NONE, addressed through a section
\* override, while another key of the same updater is still unwritten.
C4_Witness ==
  /\ lastOp.op = "setStatus"
  /\ lastOp.status # NONE
  /\ lastOp.args # <<>>
  /\ lastOp.args[1].section \in Sections \ {lastOp.self}
  /\ ~isFirstLoad(lastOp.self, lastOp.args).ret
  /\ \E args \in ArgLists :
       /\ AddressedKey(lastOp.self, args) \notin DOMAIN lastWritten
       /\ isFirstLoad(lastOp.self, args).ret

\* C5: the value a fetchDisabled(true, opts) call returns, on any updater and in
\* any store state, is that of loading(opts): true exactly when the key the call
\* is addressed to is loading.
C5_RefreshEqualsLoading ==
  lastOp.op = "fetchDisabled" /\ lastOp.refresh =>
    /\ lastOp.ret = loading(lastOp.self, lastOp.args).ret
    /\ lastOp.ret = (Held(store, AddressedKey(lastOp.self, lastOp.args)) = LOADING)

\* A fetchDisabled(true) call refused because the key is loading.
C5_Witness ==
  /\ lastOp.op = "fetchDisabled"
  /\ lastOp.refresh
  /\ lastOp.ret
  /\ Held(store, AddressedKey(lastOp.self, lastOp.args)) = LOADING

\* C6: for a key that setStatus took from NONE to a loaded, non-loading status
\* and that no setStatus or resetStatus was addressed to since, isFirstLoad is
\* false, fetchDisabled(false) is true and fetchDisabled(true) is false: in the
\* state that setStatus leaves, and for every such call made later.
C6_LoadedScenario ==
  (lastOp.op \in Queries \cup Mutators /\ AddressedKey(lastOp.self, lastOp.args) \in loadedSince) =>
    /\ lastOp.op = "isFirstLoad" => ~lastOp.ret
    /\ lastOp.op = "fetchDisabled" => (lastOp.ret = ~lastOp.refresh)
    /\ lastOp.op = "setStatus" =>
         /\ ~isFirstLoad(lastOp.self, lastOp.args).ret
         /\ fetchDisabled(lastOp.self, FALSE, lastOp.args).ret
         /\ ~fetchDisabled(lastOp.self, TRUE, lastOp.args).ret

\* A fetchDisabled(true) call allowed on such a key, after another key was
\* written as well.
C6_Witness ==
  /\ lastOp.op = "fetchDisabled"
  /\ lastOp.refresh
  /\ ~lastOp.ret
  /\ AddressedKey(lastOp.self, lastOp.args) \in loadedSince
  /\ Cardinality(DOMAIN store) = 2

\* C7: a step that is a loading, isFirstLoad, fetchDisabled or getStatus call
\* leaves the store as it was and makes no setStatus call on it; a step that
\* changes the store is a setStatus or resetStatus call.
C7_QueriesLeaveStore ==
  [][ /\ lastOp'.op \in Queries =>
           /\ store' = store
           /\ \A i \in 1..Len(lastOp'.calls) : lastOp'.calls[i].fn # "setStatus"
      /\ store' # store => lastOp'.op \in Mutators ]_vars

\* A getStatus call on a key the store does not hold, with the store not empty.
C7_Witness ==
  /\ lastOp.op = "getStatus"
  /\ AddressedKey(lastOp.self, lastOp.args) \notin DOMAIN store
  /\ DOMAIN store # {}

\* C8: a call on updater A whose options name another updater's default section
\* B gives the result, the store calls and the resulting store of the same call
\* on B with the section omitted, and A's own default key is not touched.
OnOther(args) == <<[section |-> Undefined, subsection |-> args[1].subsection]>>

C8_ExplicitSectionWins ==
  [][ (lastOp'.op \in Queries \cup Mutators /\ lastOp'.args # <<>>
        /\ lastOp'.args[1].section \in Sections \ {lastOp'.self}) =>
        LET A == lastOp'.self
            B == lastOp'.args[1].section
            args == lastOp'.args
            same == CASE lastOp'.op = "setStatus" ->
                           LET r == updateStatus(B, lastOp'.status, OnOther(args))
                           IN store' = r.store /\ lastOp'.calls = r.calls
                      [] lastOp'.op = "resetStatus" ->
                           LET r == resetStatus(B, OnOther(args))
                           IN store' = r.store /\ lastOp'.calls = r.calls
                      [] lastOp'.op = "loading" ->
                           LET r == loading(B, OnOther(args))
                           IN store' = store /\ lastOp'.calls = r.calls /\ lastOp'.ret = r.ret
                      [] lastOp'.op = "isFirstLoad" ->
                           LET r == isFirstLoad(B, OnOther(args))
                           IN store' = store /\ lastOp'.calls = r.calls /\ lastOp'.ret = r.ret
                      [] lastOp'.op = "fetchDisabled" ->
                           LET r == fetchDisabled(B, lastOp'.refresh, OnOther(args))
                           IN store' = store /\ lastOp'.calls = r.calls /\ lastOp'.ret = r.ret
                      [] lastOp'.op = "getStatus" ->
                           LET r == getSectionStatus(B, OnOther(args))
                           IN store' = store /\ lastOp'.calls = r.calls /\ lastOp'.ret = r.ret
        IN /\ same
           /\ CallKeys(lastOp'.calls) = {<<B, args[1].subsection>>}
           /\ <<A, args[1].subsection>> \notin CallKeys(lastOp'.calls)
           /\ Held(store', <<A, args[1].subsection>>) = Held(store, <<A, args[1].subsection>>) ]_vars

\* A setStatus on A naming B's section that wrote B's key while A's own key
\* holds a different status.
C8_Witness ==
  /\ lastOp.op = "setStatus"
  /\ lastOp.args # <<>>
  /\ lastOp.args[1].section \in Sections \ {lastOp.self}
  /\ Held(store, <<lastOp.args[1].section, lastOp.args[1].subsection>>) = lastOp.status
  /\ <<lastOp.self, lastOp.args[1].subsection>> \in DOMAIN store
  /\ store[<<lastOp.self, lastOp.args[1].subsection>>] # lastOp.status

\* C9: a setStatus or resetStatus step makes exactly one store call, a write to
\* the key the call is addressed to, which then holds the status passed (NONE
\* for resetStatus); every other key is held or not held as before, with the
\* status it had.
C9_SingleKeyWritten ==
  [][ lastOp'.op \in Mutators =>
        LET key == AddressedKey(lastOp'.self, lastOp'.args)
            written == IF lastOp'.op = "setStatus" THEN lastOp'.status ELSE NONE
        IN /\ Len(lastOp'.calls) = 1
           /\ lastOp'.calls[1] = StoreCall("setStatus", key[1], key[2])
           /\ key \in DOMAIN store' /\ store'[key] = written
           /\ \A k \in (DOMAIN store \cup DOMAIN store') \ {key} :
                k \in DOMAIN store /\ k \in DOMAIN store' /\ store'[k] = store[k] ]_vars

\* A setStatus of a subsection key while the key of the same section without
\* subsection holds another status.
C9_Witness ==
  /\ lastOp.op = "setStatus"
  /\ lastOp.args # <<>>
  /\ lastOp.args[1].subsection \in Subsections
  /\ LET key == AddressedKey(lastOp.self, lastOp.args)
     IN /\ <<key[1], Undefined>> \in DOMAIN store
        /\ store[<<key[1], Undefined>>] # lastOp.status
        /\ store[key] = lastOp.status

\* C10: in the state setStatus(s, opts) leaves, getStatus(opts) returns s; a
\* getStatus call on any updater returns the status passed by the latest
\* setStatus or resetStatus addressed to its key by any updater, NONE standing
\* for resetStatus.
C10_LastWriteWins ==
  /\ lastOp.op \in Mutators =>
       LET written == IF lastOp.op = "setStatus" THEN lastOp.status ELSE NONE
       IN getSectionStatus(lastOp.self, lastOp.args).ret = written
  /\ lastOp.op = "getStatus" /\ AddressedKey(lastOp.self, lastOp.args) \in DOMAIN lastWritten
       => lastOp.ret = lastWritten[AddressedKey(lastOp.self, lastOp.args)]

\* A setStatus that replaced a different status, read back through the other
\* updater.
C10_Witness ==
  /\ lastOp.op = "setStatus"
  /\ lastOp.old # lastOp.status
  /\ lastOp.old # NONE
  /\ \E self \in Updaters \ {lastOp.self}, args \in ArgLists :
       /\ AddressedKey(self, args) = AddressedKey(lastOp.self, lastOp.args)
       /\ getSectionStatus(self, args).ret = lastOp.status
====
